---------------------------- MODULE Spec2Model ----------------------------
(***************************************************************************)
(* Escape from Atlantis (src/main.py): the game engine as a state machine. *)
(* The board, the tiles, the villagers and the players are the state; the  *)
(* placement stage, the movement phase (human and automated), the tile     *)
(* sink, the creature phase and the controller of Game.play are the        *)
(* actions.  Printing and sleeping are left out: they change no state.     *)
(***************************************************************************)
EXTENDS Integers, Sequences, FiniteSets, TLC

---------------------------------------------------------------------------
(* Bounds of the model (the program plays a 3x5 board, 7/4/3 tiles of the  *)
(* three shuffled types, 10 villagers per player and treasures 1..6).      *)
BoardRows == 1
BoardCols == 4
NumForest == 1
NumMountain == 1
VillagersPerPlayer == 2
MaxTreasure == 1
NumShuffles == 1
ScaledMaxTurns == 2

(* Program constants.                                                      *)
MAX_TURNS == 20
Capacity == 3
MovePoints == 3
NumPlayers == 3
PlacementAttempts == 3
TreasureSides == 6

None == 0

NumSlots == BoardRows * BoardCols
NumBeach == NumSlots - 1 - NumForest - NumMountain

(* The players of Game.__init__, in their fixed order.                     *)
PlayerNames == <<"Human", "Computer1", "Computer2">>
Players == 1..NumPlayers
is_human(p) == p = 1

(* TILE_INFO: the distance to safety of each tile type.                    *)
TileDistance(type) ==
    CASE type = "beach" -> 3
      [] type = "forest" -> 2
      [] type = "mountain" -> 1
      [] type = "volcano" -> 1

Letters == <<"A", "B", "C", "D", "E", "F", "G", "H">>
COL_LETTERS == SubSeq(Letters, 1, BoardCols)

VARIABLES
    board,            \* self.board, row-major: slot -> tile id, or None once sunk
    tiles,            \* self.tiles: tile id -> [type, villagers], kept after a sink
    villagers,        \* every Villager object, by id
    pvillagers,       \* player.villagers: player -> sequence of villager ids
    villager_counter, \* self.villager_counter
    total_turns,      \* self.total_turns
    game_end_reason,  \* self.game_end_reason
    game_over,        \* play's local game_over
    pc,               \* where play is: setup, move, prompt_id, sink, creature, over, done
    cur,              \* the player whose placement or turn is running
    placed,           \* setup: villagers the current player has placed so far
    random_place,     \* setup's local random_place
    points,           \* player_move_phase's local points
    water_moved,      \* player_move_phase's local water_moved
    phase_start,      \* history: the villagers as they were when the movement phase began
    scores,           \* player.score
    winner,           \* the winner play announces (None before)
    max_turns         \* MAX_TURNS as play reads it: the round limit of the game

vars == <<board, tiles, villagers, pvillagers, villager_counter, total_turns,
          game_end_reason, game_over, pc, cur, placed, random_place, points,
          water_moved, phase_start, scores, winner, max_turns>>

---------------------------------------------------------------------------
(* Game.__init__: the board.                                               *)

(* The slot of grid cell (r, c), both counted from 0; tile ids are 1..15   *)
(* in the same row-major order.                                            *)
SlotOf(r, c) == r * BoardCols + c + 1

(* The volcano is the centre cell (r == 1 and c == 2 on the 3x5 board).    *)
VolcanoSlot == SlotOf(BoardRows \div 2, BoardCols \div 2)

(* remaining_types before the shuffle.                                     *)
TypePool ==
    [i \in 1..(NumSlots - 1) |->
        IF i <= NumBeach THEN "beach"
        ELSE IF i <= NumBeach + NumForest THEN "forest" ELSE "mountain"]

(* The outcomes of random.shuffle(remaining_types) the model explores: the *)
(* pool rotated by 0..NumShuffles-1 places.  Tiles differ by type only, so *)
(* another order renames the tile ids and nothing else.                    *)
Shuffles ==
    {[i \in 1..(NumSlots - 1) |-> TypePool[((i - 1 + j) % (NumSlots - 1)) + 1]] :
        j \in 0..(NumShuffles - 1)}

(* The type of tile id: the volcano at the centre, otherwise the next      *)
(* remaining_types.pop(), which takes from the end of the shuffled list.   *)
TileTypeAt(shuffled, id) ==
    IF id = VolcanoSlot THEN "volcano"
    ELSE LET pops == IF id < VolcanoSlot THEN id ELSE id - 1
         IN shuffled[(NumSlots - 1) - pops + 1]

NewTile(type) == [type |-> type, villagers |-> <<>>]

---------------------------------------------------------------------------
(* Board queries.                                                          *)

(* get_all_tiles: the ids of the tiles still on the board, in board order. *)
RECURSIVE TilesFrom(_, _)
TilesFrom(brd, s) ==
    IF s > NumSlots THEN <<>>
    ELSE IF brd[s] # None THEN <<brd[s]>> \o TilesFrom(brd, s + 1)
    ELSE TilesFrom(brd, s + 1)

get_all_tiles(brd) == TilesFrom(brd, 1)

Range(seq) == {seq[i] : i \in 1..Len(seq)}

(* find_tile_by_id: the slot that holds tile tid, or None.                 *)
find_tile_by_id(brd, tid) ==
    IF \E s \in 1..NumSlots : brd[s] # None /\ brd[s] = tid
    THEN CHOOSE s \in 1..NumSlots :
            /\ brd[s] # None /\ brd[s] = tid
            /\ \A s2 \in 1..NumSlots : (brd[s2] # None /\ brd[s2] = tid) => s <= s2
    ELSE None

(* all_tiles_sunk                                                          *)
all_tiles_sunk(brd) == ~ \E s \in 1..NumSlots : brd[s] # None

(* HasRoom with the comparison off by one.                                 *)
HasRoomOffByOne(tls, tid) == Len(tls[tid].villagers) <= Capacity

(* setup's valid_tiles: the tiles on the board with room left.             *)
HasRoom(tls, tid) == Len(tls[tid].villagers) < Capacity

valid_tiles(brd, tls) == SelectSeq(get_all_tiles(brd), LAMBDA tid : HasRoom(tls, tid))

---------------------------------------------------------------------------
(* Coordinates typed by the human: a string is a sequence of characters.   *)

Upper(ch) ==
    CASE ch = "a" -> "A" [] ch = "b" -> "B" [] ch = "c" -> "C" [] ch = "d" -> "D"
      [] ch = "e" -> "E" [] ch = "f" -> "F" [] OTHER -> ch

RECURSIVE StripLeft(_)
StripLeft(s) == IF s # <<>> /\ Head(s) = " " THEN StripLeft(Tail(s)) ELSE s

RECURSIVE StripRight(_)
StripRight(s) ==
    IF s # <<>> /\ s[Len(s)] = " " THEN StripRight(SubSeq(s, 1, Len(s) - 1)) ELSE s

Strip(s) == StripRight(StripLeft(s))

IsDigit(ch) == ch \in {"0", "1", "2", "3", "4", "5", "6", "7", "8", "9"}

DigitValue(ch) ==
    CASE ch = "0" -> 0 [] ch = "1" -> 1 [] ch = "2" -> 2 [] ch = "3" -> 3
      [] ch = "4" -> 4 [] ch = "5" -> 5 [] ch = "6" -> 6 [] ch = "7" -> 7
      [] ch = "8" -> 8 [] ch = "9" -> 9

RECURSIVE DigitsValue(_, _)
DigitsValue(s, acc) ==
    IF s = <<>> THEN acc ELSE DigitsValue(Tail(s), 10 * acc + DigitValue(Head(s)))

(* int(text): an optional sign and digits (surrounding blanks allowed);    *)
(* anything else raises ValueError.                                        *)
ParseInt(text) ==
    LET s == Strip(text)
        signed == s # <<>> /\ Head(s) \in {"-", "+"}
        digits == IF signed THEN Tail(s) ELSE s
    IN IF digits = <<>> \/ \E i \in 1..Len(digits) : ~IsDigit(digits[i])
       THEN [ok |-> FALSE, val |-> 0]
       ELSE [ok |-> TRUE,
             val |-> IF signed /\ Head(s) = "-" THEN 0 - DigitsValue(digits, 0)
                     ELSE DigitsValue(digits, 0)]

IndexOf(seq, x) == CHOOSE i \in 1..Len(seq) : seq[i] = x /\ \A j \in 1..(i - 1) : seq[j] # x

(* _coord_to_index: <<row, col>> counted from 0, or <<>> for None.         *)
coord_to_index(raw) ==
    LET coord == [i \in 1..Len(Strip(raw)) |-> Upper(Strip(raw)[i])]
    IN IF Len(coord) < 2 THEN <<>>
       ELSE IF coord[1] \notin Range(COL_LETTERS) THEN <<>>
       ELSE LET row == ParseInt(Tail(coord))
                row_index == row.val - 1
                col_index == IndexOf(COL_LETTERS, coord[1]) - 1
            IN IF ~row.ok THEN <<>>
               ELSE IF row_index < 0 \/ row_index >= BoardRows
                       \/ col_index < 0 \/ col_index >= BoardCols THEN <<>>
               ELSE <<row_index, col_index>>

(* coordinate_to_index_reprompt: inputs are the coordinate typed first and *)
(* the ones typed at each "again" prompt.  <<row, col>>, or <<>> for None  *)
(* (the caller then places at random).                                     *)
RECURSIVE coordinate_to_index_reprompt(_, _, _, _)
coordinate_to_index_reprompt(inputs, attempts, brd, tls) ==
    IF attempts <= 0 \/ inputs = <<>> THEN <<>>
    ELSE LET r_c == coord_to_index(Head(inputs))
         IN IF r_c = <<>>
            THEN IF attempts - 1 = 0 THEN <<>>
                 ELSE coordinate_to_index_reprompt(Tail(inputs), attempts - 1, brd, tls)
            ELSE LET chosen_tile == brd[SlotOf(r_c[1], r_c[2])]
                 IN IF chosen_tile = None \/ ~HasRoom(tls, chosen_tile)
                    THEN IF attempts - 1 = 0 THEN <<>>
                         ELSE coordinate_to_index_reprompt(Tail(inputs), attempts - 1, brd, tls)
                    ELSE r_c

(* What the human may type at a coordinate prompt: every cell of the       *)
(* board, and strings that _coord_to_index rejects.                        *)
RowText(n) == <<CASE n = 1 -> "1" [] n = 2 -> "2" [] n = 3 -> "3" [] n = 4 -> "4" [] OTHER -> "9">>

CoordInputs ==
    {<<COL_LETTERS[c]>> \o RowText(r) : c \in 1..BoardCols, r \in 1..BoardRows}
      \cup {<<"a", "1">>, <<" ", "B", "1", " ">>, <<"A">>, <<>>, <<"Z", "1">>,
            <<"A", "0">>, <<"A", "9">>, <<"A", "x">>, <<"A", "-", "1">>, <<"1", "A">>}


---------------------------------------------------------------------------
(* Game.play's control flow between the phases.  Each operator gives the   *)
(* controller's next position: [pc, cur, total_turns, game_end_reason,     *)
(* game_over].                                                             *)

SunkReason == "All tiles have sunk!"
EruptsReason == "Reached maximum turns (volcano erupts)!"

Ctl(p, c, turns, reason, over) ==
    [pc |-> p, cur |-> c, total_turns |-> turns, game_end_reason |-> reason,
     game_over |-> over]

(* The maximum-turns check, one round late.                                *)
MaxTurnsCheckLate(turns, over) == turns > max_turns /\ ~over

(* The maximum-turns check that does not look at game_over.                *)
MaxTurnsCheckAlways(turns, over) == turns >= max_turns

(* The condition of the maximum-turns check that follows the for loop.     *)
MaxTurnsCheck(turns, over) == turns >= max_turns /\ ~over

(* A break out of the for loop on all_tiles_sunk: game_over is set, the    *)
(* maximum-turns check that follows finds it set, and the while loop ends. *)
BreakAllSunk(p, turns) ==
    IF MaxTurnsCheck(turns, TRUE) THEN Ctl("over", p, turns, EruptsReason, TRUE)
    ELSE Ctl("over", p, turns, SunkReason, TRUE)

(* The head of the for loop for player p: the all-sunk check, then the     *)
(* player's movement phase.                                                *)
EnterTurn(p, turns, brd, reason) ==
    IF all_tiles_sunk(brd) THEN BreakAllSunk(p, turns)
    ELSE Ctl("move", p, turns, reason, FALSE)

(* The head of the while loop (game_over is False there).                  *)
EnterRound(p, turns, brd, reason) ==
    IF all_tiles_sunk(brd) THEN Ctl("over", p, turns, SunkReason, FALSE)
    ELSE EnterTurn(1, turns + 1, brd, reason)

(* The for loop ran out: the maximum-turns check, then the next round.     *)
EndRound(p, turns, brd, reason) ==
    IF MaxTurnsCheck(turns, FALSE) THEN Ctl("over", p, turns, EruptsReason, TRUE)
    ELSE EnterRound(p, turns, brd, reason)

(* AfterMove that goes on to the creature phase without a sink.            *)
AfterMoveSkipsSink(p, turns, brd, reason) ==
    IF all_tiles_sunk(brd) THEN BreakAllSunk(p, turns)
    ELSE Ctl("creature", p, turns, reason, FALSE)

(* After player p's movement phase: the all-sunk check, then sink_tile.    *)
AfterMove(p, turns, brd, reason) ==
    IF all_tiles_sunk(brd) THEN BreakAllSunk(p, turns)
    ELSE Ctl("sink", p, turns, reason, FALSE)

(* AfterSink without the all-sunk check.                                   *)
AfterSinkUnchecked(p, turns, brd, reason) == Ctl("creature", p, turns, reason, FALSE)

(* After sink_tile: the all-sunk check, then creature_phase.               *)
AfterSink(p, turns, brd, reason) ==
    IF all_tiles_sunk(brd) THEN BreakAllSunk(p, turns)
    ELSE Ctl("creature", p, turns, reason, FALSE)

(* AfterCreature that ends the round after any player.                     *)
AfterCreatureEndsRound(p, turns, brd, reason) == EndRound(p, turns, brd, reason)

(* After creature_phase: the next player's turn, or the end of the round.  *)
AfterCreature(p, turns, brd, reason) ==
    IF p < NumPlayers THEN EnterTurn(p + 1, turns, brd, reason)
    ELSE EndRound(p, turns, brd, reason)

(* The controller moves to ctl; a movement phase that begins gets its 3    *)
(* points and an empty water_moved set (vs: the villagers at that moment). *)
Goto(ctl, vs) ==
    /\ pc' = ctl.pc
    /\ cur' = ctl.cur
    /\ total_turns' = ctl.total_turns
    /\ game_end_reason' = ctl.game_end_reason
    /\ game_over' = ctl.game_over
    /\ points' = IF ctl.pc = "move" THEN MovePoints ELSE 0
    /\ water_moved' = {}
    /\ phase_start' = IF ctl.pc = "move" THEN vs ELSE <<>>

---------------------------------------------------------------------------
(* Game.setup                                                              *)

(* The game after Game.__init__, whatever the round limit.                  *)
NewGame ==
    /\ \E shuffled \in Shuffles :
          tiles = [id \in 1..NumSlots |-> NewTile(TileTypeAt(shuffled, id))]
    /\ board = [s \in 1..NumSlots |-> s]
    /\ villagers = <<>>
    /\ pvillagers = [p \in Players |-> <<>>]
    /\ villager_counter = 1
    /\ total_turns = 0
    /\ game_end_reason = ""
    /\ game_over = FALSE
    /\ pc = "setup_player"
    /\ cur = 1
    /\ placed = 0
    /\ random_place = FALSE
    /\ points = 0
    /\ water_moved = {}
    /\ phase_start = <<>>
    /\ scores = [p \in Players |-> 0]
    /\ winner = None

(* The program as it is: MAX_TURNS = 20.                                   *)
Init ==
    /\ NewGame
    /\ max_turns = MAX_TURNS

(* The program with MAX_TURNS scaled down to a limit the small board can   *)
(* reach (its 4 tiles last into round 2; the program's 15 last into round  *)
(* 5): the same code, with the maximum-turns check within reach.           *)
InitScaled ==
    /\ NewGame
    /\ max_turns \in 1..ScaledMaxTurns

(* The head of setup's loop over the players: random_place, which only the *)
(* human may set by answering "y".                                         *)
SetupPlayer ==
    /\ pc = "setup_player"
    /\ \E choice \in {"y", "n", ""} :
          random_place' = (is_human(cur) /\ choice = "y")
    /\ pc' = "place"
    /\ placed' = 0
    /\ UNCHANGED <<board, tiles, villagers, pvillagers, villager_counter, total_turns,
                   game_end_reason, game_over, cur, points, water_moved, phase_start,
                   scores, winner, max_turns>>

(* The player's placement loop is over (10 placed, or the break): the next *)
(* player, or setup is complete and play enters its loop.                  *)
SetupNext(vs) ==
    IF cur < NumPlayers
    THEN /\ pc' = "setup_player"
         /\ cur' = cur + 1
         /\ UNCHANGED <<total_turns, game_end_reason, game_over, points, water_moved,
                        phase_start>>
    ELSE Goto(EnterRound(cur, total_turns, board, game_end_reason), vs)

(* NewVillager that gives every villager the distance of a beach.          *)
NewVillagerFromBeach(id, p, treasure, tls, chosen_tile) ==
    [id |-> id, owner |-> PlayerNames[p], treasure |-> treasure, state |-> "land",
     distance_remaining |-> TileDistance("beach"), tile |-> chosen_tile]

NewVillager(id, p, treasure, tls, chosen_tile) ==
    [id |-> id, owner |-> PlayerNames[p], treasure |-> treasure, state |-> "land",
     distance_remaining |-> TileDistance(tls[chosen_tile].type), tile |-> chosen_tile]

(* The tiles setup may choose for one villager: the human's coordinate if  *)
(* coordinate_to_index_reprompt accepts one of the (up to 3) inputs,       *)
(* otherwise random.choice(valid_tiles).                                   *)
ChosenTiles(p, rnd, brd, tls) ==
    LET vt == Range(valid_tiles(brd, tls))
        answers == {coordinate_to_index_reprompt(inputs, PlacementAttempts, brd, tls) :
                       inputs \in CoordInputs \X CoordInputs \X CoordInputs}
    IN IF is_human(p) /\ ~rnd
       THEN {brd[SlotOf(r_c[1], r_c[2])] : r_c \in answers \ {<<>>}}
              \cup (IF <<>> \in answers THEN vt ELSE {})
       ELSE vt

(* One pass of "for _ in range(10)".                                       *)
PlaceVillager ==
    /\ pc = "place"
    /\ IF valid_tiles(board, tiles) = <<>>
       THEN /\ SetupNext(villagers)
            /\ placed' = 0
            /\ UNCHANGED <<tiles, villagers, pvillagers, villager_counter>>
       ELSE \E treasure \in 1..MaxTreasure :
            \E chosen_tile \in ChosenTiles(cur, random_place, board, tiles) :
               LET villager == NewVillager(villager_counter, cur, treasure, tiles, chosen_tile)
               IN /\ villagers' = Append(villagers, villager)
                  /\ pvillagers' = [pvillagers EXCEPT ![cur] = Append(@, villager.id)]
                  /\ tiles' = [tiles EXCEPT ![chosen_tile].villagers = Append(@, villager.id)]
                  /\ villager_counter' = villager_counter + 1
                  /\ IF placed + 1 < VillagersPerPlayer
                     THEN /\ placed' = placed + 1
                          /\ UNCHANGED <<pc, cur, total_turns, game_end_reason, game_over,
                                         points, water_moved, phase_start>>
                     ELSE /\ placed' = 0
                          /\ SetupNext(villagers')
    /\ UNCHANGED <<board, random_place, scores, winner, max_turns>>

---------------------------------------------------------------------------
(* Game.player_move_phase                                                  *)

Movable(v) == v.state \in {"land", "water"}

(* The while condition: points left and a villager on land or in water.    *)
MoveLoopCondition(pts, vs, pv) ==
    pts > 0 /\ \E i \in 1..Len(pv) : Movable(vs[pv[i]])

Min(a, b) == IF a <= b THEN a ELSE b

(* list.remove: the list without the first occurrence of x.                *)
RECURSIVE Remove(_, _)
Remove(seq, x) ==
    IF seq = <<>> THEN <<>>
    ELSE IF Head(seq) = x THEN Tail(seq)
    ELSE <<Head(seq)>> \o Remove(Tail(seq), x)

(* StateAfterMove that makes a villager safe only below distance 0.        *)
StateAfterMoveStrict(v, dist) == IF dist < 0 THEN "safe" ELSE v.state

(* The state a villager takes once its distance has been reduced.          *)
StateAfterMove(v, dist) == IF dist <= 0 THEN "safe" ELSE v.state

(* The villager after the move: distance_remaining and state change, the   *)
(* tile field is left as it is.                                            *)
MovedVillager(v, move_points) ==
    [v EXCEPT !.distance_remaining = v.distance_remaining - move_points,
              !.state = StateAfterMove(v, v.distance_remaining - move_points)]

(* The tiles after villager v moved: a villager made safe is removed from  *)
(* the occupants of the tile it references.                                *)
TilesAfterMove(tls, v, move_points) ==
    IF v.distance_remaining - move_points <= 0 /\ v.tile # None
    THEN [tls EXCEPT ![v.tile].villagers = Remove(@, v.id)]
    ELSE tls

(* WaterMovedAfterMove that forgets to mark the villager.                  *)
WaterMovedNeverMarked(wm, v, move_points) == wm

(* water_moved after villager v moved: a villager still in water is marked.*)
WaterMovedAfterMove(wm, v, move_points) ==
    IF v.distance_remaining - move_points > 0 /\ v.state = "water"
    THEN wm \cup {v.id}
    ELSE wm

(* The move itself, the same lines in the human and the automated branch.  *)
ApplyMove(vid, move_points) ==
    /\ villagers' = [villagers EXCEPT ![vid] = MovedVillager(@, move_points)]
    /\ points' = points - move_points
    /\ tiles' = TilesAfterMove(tiles, villagers[vid], move_points)
    /\ water_moved' = WaterMovedAfterMove(water_moved, villagers[vid], move_points)

(* The loop condition fails: the phase is over.                            *)
MovePhaseEnd ==
    /\ pc = "move"
    /\ ~MoveLoopCondition(points, villagers, pvillagers[cur])
    /\ Goto(AfterMove(cur, total_turns, board, game_end_reason), villagers)
    /\ UNCHANGED <<board, tiles, villagers, pvillagers, villager_counter, placed,
                   random_place, scores, winner, max_turns>>

(* The human's "Move a villager? (y/n)" prompt; anything else re-prompts.  *)
HumanChoice ==
    /\ pc = "move"
    /\ is_human(cur)
    /\ MoveLoopCondition(points, villagers, pvillagers[cur])
    /\ \E choice \in {"y", "n", "x"} :
          CASE choice = "y" ->
                  /\ pc' = "prompt_id"
                  /\ UNCHANGED <<cur, total_turns, game_end_reason, game_over, points,
                                 water_moved, phase_start>>
            [] choice = "n" ->
                  Goto(AfterMove(cur, total_turns, board, game_end_reason), villagers)
            [] OTHER ->
                  UNCHANGED <<pc, cur, total_turns, game_end_reason, game_over, points,
                              water_moved, phase_start>>
    /\ UNCHANGED <<board, tiles, villagers, pvillagers, villager_counter, placed,
                   random_place, scores, winner, max_turns>>

(* What the human may type at the id and the amount prompts: numbers, or   *)
(* NotANumber for text that is not all digits.                             *)
NotANumber == 0 - 1
IdInputs == {NotANumber} \cup (0..(NumPlayers * VillagersPerPlayer + 1))
AmountInputs == {NotANumber} \cup (0..(MovePoints + 1))

(* prompt_for_villager_id accepts raw_vid: the id of a villager of the     *)
(* player that is on land, or in water and not in water_moved.             *)
IdAccepted(raw_vid, vs, pv, wm) ==
    /\ raw_vid # NotANumber
    /\ \E i \in 1..Len(pv) : vs[pv[i]].id = raw_vid /\ Movable(vs[pv[i]])
    /\ ~(vs[raw_vid].state = "water" /\ raw_vid \in wm)

(* HumanMaxMove without the cap by the points left.                        *)
HumanMaxMoveUncapped(v, pts) == IF v.state = "land" THEN v.distance_remaining ELSE 1

(* max_move of the human branch.                                           *)
HumanMaxMove(v, pts) == IF v.state = "land" THEN Min(pts, v.distance_remaining) ELSE 1

(* AmountAccepted that lets an amount of 0 through.                        *)
AmountAcceptedZero(raw_move, max_move) ==
    raw_move # NotANumber /\ ~(raw_move < 0 \/ raw_move > max_move)

(* prompt_for_move_points accepts raw_move.                                *)
AmountAccepted(raw_move, max_move) ==
    raw_move # NotANumber /\ ~(raw_move < 1 \/ raw_move > max_move)

(* The human answered "y": the id prompt, the amount prompt and the move.  *)
(* A rejected answer re-prompts and changes nothing.                       *)
HumanMove ==
    /\ pc = "prompt_id"
    /\ \E raw_vid \in IdInputs :
          IF ~IdAccepted(raw_vid, villagers, pvillagers[cur], water_moved)
          THEN UNCHANGED <<pc, villagers, points, tiles, water_moved>>
          ELSE LET max_move == HumanMaxMove(villagers[raw_vid], points)
               IN IF max_move <= 0
                  THEN pc' = "move" /\ UNCHANGED <<villagers, points, tiles, water_moved>>
                  ELSE \E raw_move \in AmountInputs :
                          IF ~AmountAccepted(raw_move, max_move)
                          THEN UNCHANGED <<pc, villagers, points, tiles, water_moved>>
                          ELSE pc' = "move" /\ ApplyMove(raw_vid, raw_move)
    /\ UNCHANGED <<board, pvillagers, villager_counter, total_turns, game_end_reason,
                   game_over, cur, placed, random_place, phase_start, scores, winner, max_turns>>

(* MinByDistance that takes the first of the largest.                      *)
MaxByDistance(ids, vs) ==
    ids[CHOOSE i \in 1..Len(ids) :
           /\ \A j \in 1..Len(ids) : vs[ids[i]].distance_remaining >= vs[ids[j]].distance_remaining
           /\ \A j \in 1..(i - 1) : vs[ids[j]].distance_remaining < vs[ids[i]].distance_remaining]

(* min(ids, key=distance_remaining): the first of the smallest.            *)
MinByDistance(ids, vs) ==
    ids[CHOOSE i \in 1..Len(ids) :
           /\ \A j \in 1..Len(ids) : vs[ids[i]].distance_remaining <= vs[ids[j]].distance_remaining
           /\ \A j \in 1..(i - 1) : vs[ids[j]].distance_remaining > vs[ids[i]].distance_remaining]

(* The automated branch's choice: [stop, vid, move_points]; stop is one of *)
(* its break statements.                                                   *)
ComputerStop == [stop |-> TRUE, vid |-> None, move_points |-> 0]

(* MovedInWater that takes every swimmer for one already moved.            *)
MovedInWaterAny(v, wm) == v.state = "water"

(* The villager is in water and was moved this turn.                       *)
MovedInWater(v, wm) == v.state = "water" /\ v.id \in wm

ComputerChoice(vs, pv, wm, pts) ==
    LET comp_movable == SelectSeq(pv, LAMBDA id : Movable(vs[id]))
        land_only == SelectSeq(comp_movable, LAMBDA id : vs[id].state = "land")
    IN IF comp_movable = <<>> THEN ComputerStop
       ELSE LET first == MinByDistance(comp_movable, vs)
                swap == MovedInWater(vs[first], wm)
            IN IF swap /\ land_only = <<>> THEN ComputerStop
               ELSE LET v == IF swap THEN MinByDistance(land_only, vs) ELSE first
                        max_move == IF vs[v].state = "land"
                                    THEN Min(pts, vs[v].distance_remaining) ELSE 1
                    IN IF vs[v].state # "land" /\ v \in wm THEN ComputerStop
                       ELSE IF max_move <= 0 THEN ComputerStop
                       ELSE [stop |-> FALSE, vid |-> v, move_points |-> max_move]

(* One pass of the while loop for an automated player.                     *)
ComputerMove ==
    /\ pc = "move"
    /\ ~is_human(cur)
    /\ MoveLoopCondition(points, villagers, pvillagers[cur])
    /\ LET c == ComputerChoice(villagers, pvillagers[cur], water_moved, points)
       IN IF c.stop
          THEN /\ Goto(AfterMove(cur, total_turns, board, game_end_reason), villagers)
               /\ UNCHANGED <<villagers, tiles>>
          ELSE /\ ApplyMove(c.vid, c.move_points)
               /\ UNCHANGED <<pc, cur, total_turns, game_end_reason, game_over, phase_start>>
    /\ UNCHANGED <<board, pvillagers, villager_counter, placed, random_place, scores, winner, max_turns>>

---------------------------------------------------------------------------
(* Game.sink_tile                                                          *)

TilesOfType(brd, tls, type) ==
    {tid \in Range(get_all_tiles(brd)) : tls[tid].type = type}

(* SinkCandidates without the priority of the types.                       *)
SinkAnyTile(brd, tls) == Range(get_all_tiles(brd))

(* The tiles random.choice may pick: those of the first type, in the order *)
(* beach, forest, mountain, volcano, that is still on the board.           *)
SinkCandidates(brd, tls) ==
    IF TilesOfType(brd, tls, "beach") # {} THEN TilesOfType(brd, tls, "beach")
    ELSE IF TilesOfType(brd, tls, "forest") # {} THEN TilesOfType(brd, tls, "forest")
    ELSE IF TilesOfType(brd, tls, "mountain") # {} THEN TilesOfType(brd, tls, "mountain")
    ELSE TilesOfType(brd, tls, "volcano")

(* Dropped that also costs the villager one unit of distance.              *)
DroppedAndHurt(v) ==
    IF v.state = "land"
    THEN [v EXCEPT !.state = "water", !.tile = None,
                   !.distance_remaining = v.distance_remaining - 1]
    ELSE v

(* A villager after the tile it stands on sank.                            *)
Dropped(v) == IF v.state = "land" THEN [v EXCEPT !.state = "water", !.tile = None] ELSE v

(* The villagers after tile tid sank: those in its occupant list drop.     *)
VillagersAfterSink(vs, tls, tid) ==
    [i \in 1..Len(vs) |-> IF i \in Range(tls[tid].villagers) THEN Dropped(vs[i]) ELSE vs[i]]

(* The board after tile tid sank: its slot holds None.                     *)
BoardAfterSink(brd, tid) == [brd EXCEPT ![find_tile_by_id(brd, tid)] = None]

SinkPhase ==
    /\ pc = "sink"
    /\ IF SinkCandidates(board, tiles) # {}
       THEN \E tile_to_sink \in SinkCandidates(board, tiles) :
               /\ villagers' = VillagersAfterSink(villagers, tiles, tile_to_sink)
               /\ board' = BoardAfterSink(board, tile_to_sink)
       ELSE UNCHANGED <<villagers, board>>
    /\ Goto(AfterSink(cur, total_turns, board', game_end_reason), villagers')
    /\ UNCHANGED <<tiles, pvillagers, villager_counter, placed, random_place, scores, winner, max_turns>>

---------------------------------------------------------------------------
(* Game.creature_phase                                                     *)

DieFaces == 1..6

(* AllWater that also takes the villagers on land.                         *)
AllWaterOrLand(vs) == {i \in 1..Len(vs) : vs[i].state \in {"water", "land"}}

(* all_water: the villagers in water, of every player.                     *)
AllWater(vs) == {i \in 1..Len(vs) : vs[i].state = "water"}

(* Attacks that also strikes on a roll of 3.                               *)
AttacksOnThree(roll) == roll \in {1, 2, 3}

Attacks(roll) == roll \in {1, 2}

Killed(v) == [v EXCEPT !.state = "dead"]

(* creature_phase with this roll: the villagers it may leave behind, one   *)
(* for each victim random.choice may pick.                                 *)
CreatureOutcomes(vs, roll) ==
    IF Attacks(roll) /\ AllWater(vs) # {}
    THEN {[vs EXCEPT ![victim] = Killed(@)] : victim \in AllWater(vs)}
    ELSE {vs}

CreaturePhase ==
    /\ pc = "creature"
    /\ \E roll \in DieFaces : villagers' \in CreatureOutcomes(villagers, roll)
    /\ Goto(AfterCreature(cur, total_turns, board, game_end_reason), villagers')
    /\ UNCHANGED <<board, tiles, pvillagers, villager_counter, placed, random_place,
                   scores, winner, max_turns>>

---------------------------------------------------------------------------
(* Game.play after its loop: the reason, the scores and the winner.        *)

RECURSIVE SumTreasure(_, _)
SumTreasure(ids, vs) ==
    IF ids = <<>> THEN 0
    ELSE (IF vs[Head(ids)].state = "safe" THEN vs[Head(ids)].treasure ELSE 0)
         + SumTreasure(Tail(ids), vs)

Score(p, vs, pv) == SumTreasure(pv[p], vs)

(* Winner that keeps the last of the players with the highest score.       *)
WinnerLast(sc) ==
    CHOOSE p \in Players :
        /\ \A q \in Players : sc[q] <= sc[p]
        /\ \A q \in (p + 1)..NumPlayers : sc[q] < sc[p]

(* max(self.players, key=score): the first player with the highest score.  *)
Winner(sc) ==
    CHOOSE p \in Players :
        /\ \A q \in Players : sc[q] <= sc[p]
        /\ \A q \in 1..(p - 1) : sc[q] < sc[p]

Scoring ==
    /\ pc = "over"
    /\ pc' = "done"
    /\ game_end_reason' = IF game_end_reason = "" THEN "End condition met." ELSE game_end_reason
    /\ scores' = [p \in Players |-> Score(p, villagers, pvillagers)]
    /\ winner' = Winner(scores')
    /\ UNCHANGED <<board, tiles, villagers, pvillagers, villager_counter, total_turns,
                   game_over, cur, placed, random_place, points, water_moved, phase_start, max_turns>>

---------------------------------------------------------------------------
Next ==
    \/ SetupPlayer
    \/ PlaceVillager
    \/ MovePhaseEnd
    \/ HumanChoice
    \/ HumanMove
    \/ ComputerMove
    \/ SinkPhase
    \/ CreaturePhase
    \/ Scoring

Spec == Init /\ [][Next]_vars

(* The same game under every scaled round limit.                           *)
SpecScaled == InitScaled /\ [][Next]_vars

(* The movement phase of an automated player, taken on its own.  The      *)
(* automated branch reads the player's villagers, the points and           *)
(* water_moved and nothing else, so it is run from the start of a phase    *)
(* for every combination the player's villagers can be in on the program's *)
(* 15 tiles: on a tile of the board at any distance up to the tile's (a    *)
(* move may have taken a villager part of the way), in water or dead at    *)
(* any distance, or safe.  The beaches sink first, so a villager is in     *)
(* water or dead only once the beach is gone.  The other players'          *)
(* villagers are safe.                                                     *)
VillagerShapes(brd, tls) ==
    {x \in [state : {"land"}, distance_remaining : 1..TileDistance("beach"),
            tile : Range(get_all_tiles(brd))] :
        x.distance_remaining <= TileDistance(tls[x.tile].type)}
    \cup (IF \E s \in 1..NumSlots : brd[s] = None
          THEN [state : {"water", "dead"}, distance_remaining : 1..TileDistance("beach"),
                tile : {None}]
          ELSE {})
    \cup {[state |-> "safe", distance_remaining |-> 0, tile |-> None]}

InitPhase ==
    \E shuffled \in Shuffles, p \in {q \in Players : ~is_human(q)}, beach_sunk \in BOOLEAN :
       LET tls == [id \in 1..NumSlots |-> NewTile(TileTypeAt(shuffled, id))]
           brd == [s \in 1..NumSlots |->
                      IF beach_sunk /\ tls[s].type = "beach" THEN None ELSE s]
           pv == [q \in Players |->
                     [k \in 1..VillagersPerPlayer |-> (q - 1) * VillagersPerPlayer + k]]
       IN \E shapes \in [1..VillagersPerPlayer -> VillagerShapes(brd, tls)] :
             LET vs == [i \in 1..(NumPlayers * VillagersPerPlayer) |->
                          LET q == ((i - 1) \div VillagersPerPlayer) + 1
                              shape == IF q = p
                                       THEN shapes[((i - 1) % VillagersPerPlayer) + 1]
                                       ELSE [state |-> "safe", distance_remaining |-> 0,
                                             tile |-> None]
                          IN [id |-> i, owner |-> PlayerNames[q], treasure |-> 1,
                              state |-> shape.state,
                              distance_remaining |-> shape.distance_remaining,
                              tile |-> shape.tile]]
             IN /\ villagers = vs
                /\ pvillagers = pv
                /\ tiles = [id \in 1..NumSlots |->
                               [tls[id] EXCEPT !.villagers =
                                   SelectSeq(pv[p], LAMBDA i : vs[i].tile = id)]]
                /\ board = brd
                /\ cur = p
                /\ phase_start = vs
                /\ villager_counter = NumPlayers * VillagersPerPlayer + 1
                /\ total_turns = 1
                /\ game_end_reason = ""
                /\ game_over = FALSE
                /\ pc = "move"
                /\ placed = 0
                /\ random_place = FALSE
                /\ points = MovePoints
                /\ water_moved = {}
                /\ scores = [q \in Players |-> 0]
                /\ winner = None
                /\ max_turns = MAX_TURNS

NextPhase ==
    \/ ComputerMove
    \/ MovePhaseEnd

PhaseSpec == InitPhase /\ [][NextPhase]_vars

(* The game whose players keep playing: a step that changes the state is   *)
(* taken whenever one stays possible.  The automated players and the dice  *)
(* never wait; for the human this is the player who does not answer a      *)
(* prompt with rejected input for ever.                                    *)
FairSpec == Spec /\ WF_vars(Next)

---------------------------------------------------------------------------
(* Properties.                                                             *)

VillagerIds == 1..Len(villagers)
OnBoard == Range(get_all_tiles(board))
InMovePhase == pc \in {"move", "prompt_id"}

C2_SafeIffArrived ==
    \A i \in VillagerIds :
        /\ (villagers[i].state = "safe") <=> (villagers[i].distance_remaining <= 0)
        /\ villagers[i].distance_remaining >= 0

(* A move has made a villager safe while another is dead in the water.     *)
C2_Witness ==
    /\ \E i \in VillagerIds : villagers[i].state = "safe"
    /\ \E i \in VillagerIds : villagers[i].state = "dead"
    /\ \E i \in VillagerIds : villagers[i].state = "water"

(* C3: a safe villager has no tile reference.                              *)
C3_SafeHasNoTile ==
    \A i \in VillagerIds : villagers[i].state = "safe" => villagers[i].tile = None

(* C4: villager v references tile t exactly when v is in t's occupant      *)
(* list, for every tile object, sunk or not.                               *)
C4_ReferencesConsistent ==
    \A i \in VillagerIds : \A tid \in 1..NumSlots :
        (villagers[i].tile = tid) <=> (i \in Range(tiles[tid].villagers))

(* The tiles a step takes off the board.                                   *)
SunkNow == {board[s] : s \in {x \in 1..NumSlots : board[x] # None /\ board'[x] = None}}

(* C5: a sink puts every occupant of the sunk tile in the water with no    *)
(* tile reference and changes nothing else of any villager: no distance,   *)
(* no villager to safe or dead, no villager that was not on the tile.      *)
C5_SinkFrame ==
    [][pc = "sink" =>
        \A i \in VillagerIds :
            IF \E tid \in SunkNow : i \in Range(tiles[tid].villagers)
            THEN villagers'[i] = [villagers[i] EXCEPT !.state = "water", !.tile = None]
            ELSE villagers'[i] = villagers[i]]_vars

(* A sink has dropped a villager that still has all of its tile's distance *)
(* to go, while another villager stands on land.                           *)
C5_Witness ==
    /\ pc = "creature"
    /\ \E i \in VillagerIds : villagers[i].state = "water" /\ villagers[i].distance_remaining = 3
    /\ \E i \in VillagerIds : villagers[i].state = "land"

(* C6: within one movement phase no villager is moved in the water more    *)
(* than once; a move in the water costs 1 point and 1 unit of distance;    *)
(* water_moved is empty when a movement phase begins.                      *)
C6_WaterMoveOncePerPhase ==
    [][/\ InMovePhase' =>
            \A i \in 1..Len(villagers') :
                phase_start'[i].state = "water" =>
                    phase_start'[i].distance_remaining - villagers'[i].distance_remaining <= 1
       /\ InMovePhase =>
            \A i \in VillagerIds :
                (villagers[i].state = "water" /\ villagers'[i] # villagers[i]) =>
                    /\ i \notin water_moved
                    /\ villagers'[i].distance_remaining = villagers[i].distance_remaining - 1
                    /\ points' = points - 1
       /\ (InMovePhase' /\ ~InMovePhase) => water_moved' = {}]_vars

(* An automated player has moved a swimmer once, has points left and the   *)
(* swimmer is still in the water.                                          *)
C6_Witness ==
    /\ pc = "move"
    /\ ~is_human(cur)
    /\ points > 0
    /\ \E i \in water_moved : villagers[i].state = "water"

TypeRank(type) ==
    CASE type = "beach" -> 1
      [] type = "forest" -> 2
      [] type = "mountain" -> 3
      [] type = "volcano" -> 4

NoTileLeft == [s \in 1..NumSlots |-> None]

(* C7: a sink takes exactly one tile, of the first type in the order       *)
(* beach, forest, mountain, volcano still on the board; the volcano only   *)
(* as the last tile; with no tile on the board there is nothing to sink.   *)
C7_SinkPriority ==
    [][/\ pc = "sink" =>
            /\ Cardinality(SunkNow) = 1
            /\ \A tid \in SunkNow :
                  /\ \A other \in OnBoard :
                        TypeRank(tiles[tid].type) <= TypeRank(tiles[other].type)
                  /\ tiles[tid].type = "volcano" => OnBoard = {tid}
       /\ SinkCandidates(NoTileLeft, tiles) = {}]_vars

(* The mountain has sunk and the volcano is the one tile left.             *)
C7_Witness ==
    /\ OnBoard = {VolcanoSlot}
    /\ pc = "creature"

RECURSIVE SumReduction(_, _, _)
SumReduction(before, after, n) ==
    IF n = 0 THEN 0
    ELSE (before[n].distance_remaining - after[n].distance_remaining)
         + SumReduction(before, after, n - 1)

(* C8: a movement phase spends at most 3 points; the distance taken off    *)
(* all villagers in the phase equals the points spent; a move on land      *)
(* spends between 1 and min(points left, remaining distance); only         *)
(* villagers of the moving player that are on land or in water change.     *)
C8_MovementBudget ==
    [][/\ InMovePhase' =>
            /\ points' \in 0..3
            /\ SumReduction(phase_start', villagers', Len(villagers')) = 3 - points'
       /\ InMovePhase =>
            \A i \in VillagerIds :
                villagers'[i] # villagers[i] =>
                    /\ villagers[i].owner = PlayerNames[cur]
                    /\ villagers[i].state \in {"land", "water"}
                    /\ villagers[i].state = "land" =>
                          LET spent == villagers[i].distance_remaining
                                         - villagers'[i].distance_remaining
                          IN /\ spent >= 1
                             /\ spent <= Min(points, villagers[i].distance_remaining)
                             /\ points' = points - spent]_vars

(* The human has spent all 3 points on two villagers.                      *)
C8_Witness ==
    /\ pc = "move"
    /\ is_human(cur)
    /\ points = 0
    /\ Cardinality({i \in VillagerIds :
                      phase_start[i].distance_remaining # villagers[i].distance_remaining}) = 2

(* C9: the players act in the order Human, Computer1, Computer2; each      *)
(* player's phases run in the order movement, sink, creature; once every   *)
(* tile has sunk no phase runs any more.                                   *)
C9_PhaseOrder ==
    [][/\ (pc = "place" /\ pc' \notin {"place", "setup_player"}) =>
            (pc' = "move" /\ cur' = 1 /\ total_turns' = 1)
       /\ InMovePhase =>
            /\ cur' = cur
            /\ total_turns' = total_turns
            /\ InMovePhase' \/ pc' = "sink"
       /\ pc = "sink" =>
            IF all_tiles_sunk(board') THEN pc' = "over"
            ELSE pc' = "creature" /\ cur' = cur /\ total_turns' = total_turns
       /\ pc = "creature" =>
            /\ pc' = "move"
            /\ IF cur < 3 THEN cur' = cur + 1 /\ total_turns' = total_turns
               ELSE cur' = 1 /\ total_turns' = total_turns + 1
       /\ all_tiles_sunk(board') => pc' \in {"over", "done"}]_vars

(* All three players have had their turn and a second round is running.    *)
C9_Witness ==
    /\ total_turns = 2
    /\ pc = "sink"
    /\ cur = 1

(* C10: the sink that takes the last tile ends the game at once, and from  *)
(* then on no villager changes: only the scores are computed.              *)
C10_LastSinkEndsGame ==
    [][/\ (pc = "sink" /\ all_tiles_sunk(board')) =>
            (pc' = "over" /\ game_end_reason' = SunkReason)
       /\ pc \in {"over", "done"} =>
            (pc' = "done" /\ villagers' = villagers /\ board' = board)]_vars

(* The game is over with every tile sunk and a villager still swimming.    *)
C10_Witness ==
    /\ pc = "done"
    /\ all_tiles_sunk(board)
    /\ game_end_reason = SunkReason
    /\ \E i \in VillagerIds : villagers[i].state = "water"

(* C11: the round counter never exceeds the round limit (20 in the         *)
(* program), and a new round is started only while a tile is left on the   *)
(* board and the counter is below the limit.                               *)
C11_RoundsWithinLimit ==
    [][/\ total_turns' <= max_turns
       /\ total_turns' # total_turns =>
             /\ total_turns' = total_turns + 1
             /\ board # NoTileLeft
             /\ total_turns < max_turns]_vars

(* The counter has reached the limit with tiles left on the board, and the *)
(* game ended there instead of starting another round.                     *)
C11_Witness ==
    /\ pc = "over"
    /\ total_turns = max_turns
    /\ board # NoTileLeft
    /\ game_end_reason = EruptsReason

NoAcceptableId ==
    /\ pc = "prompt_id"
    /\ \A raw_vid \in IdInputs : ~IdAccepted(raw_vid, villagers, pvillagers[cur], water_moved)

(* What is left of the game, as a number: the rounds up to the limit, the  *)
(* players still to come in the round, and the steps left in the phase     *)
(* (placements in setup; movement points, then the sink, then the creature *)
(* in a turn).                                                             *)
TurnWeight == 2 * MovePoints + VillagersPerPlayer + 4
RoundWeight == NumPlayers * TurnWeight
PhaseRank ==
    CASE pc = "setup_player" -> VillagersPerPlayer + 1
      [] pc = "place" -> VillagersPerPlayer - placed
      [] pc = "move" -> 2 * points + 3
      [] pc = "prompt_id" -> 2 * points + 2
      [] pc = "sink" -> 2
      [] pc = "creature" -> 1
      [] OTHER -> 0
Remaining ==
    CASE pc = "done" -> 0
      [] pc = "over" -> 1
      [] OTHER -> 2 + (max_turns - total_turns) * RoundWeight
                    + (NumPlayers - cur) * TurnWeight + PhaseRank

(* An id the id prompt accepts is followed by an amount prompt that has an *)
(* acceptable answer.                                                      *)
AmountAnswerable ==
    pc = "prompt_id" =>
       \A raw_vid \in IdInputs :
          IdAccepted(raw_vid, villagers, pvillagers[cur], water_moved) =>
             \E raw_move \in AmountInputs :
                AmountAccepted(raw_move, HumanMaxMove(villagers[raw_vid], points))

OneSwimmerKilled(before, after) ==
    /\ Len(after) = Len(before)
    /\ \E i \in 1..Len(before) :
          /\ before[i].state = "water"
          /\ after[i] = [before[i] EXCEPT !.state = "dead"]
          /\ \A j \in 1..Len(before) : j # i => after[j] = before[j]

(* C13: a creature phase that rolls 1 or 2 while a villager (of any        *)
(* player) is in water makes exactly one villager in water dead and        *)
(* changes nothing else; on a roll of 3 to 6, or with nobody in water, it  *)
(* changes no villager; it never changes the board, a tile or a player's   *)
(* list, and never harms a villager on land, safe or dead.                 *)
C13_CreatureKillsOneSwimmer ==
    [][pc = "creature" =>
          /\ \A roll \in DieFaces :
                IF roll \in {1, 2} /\ (\E i \in VillagerIds : villagers[i].state = "water")
                THEN /\ CreatureOutcomes(villagers, roll) # {}
                     /\ \A after \in CreatureOutcomes(villagers, roll) :
                           OneSwimmerKilled(villagers, after)
                ELSE CreatureOutcomes(villagers, roll) = {villagers}
          /\ villagers' = villagers \/ OneSwimmerKilled(villagers, villagers')
          /\ UNCHANGED <<board, tiles, pvillagers>>]_vars

(* The creature has killed one of two swimmers.                            *)
C13_Witness ==
    /\ \E i \in VillagerIds : villagers[i].state = "dead"
    /\ \E j \in VillagerIds : villagers[j].state = "water"
    /\ pc \in {"move", "over"}

(* The sum of the treasures of the villagers in S.                         *)
RECURSIVE TreasureOf(_, _)
TreasureOf(S, vs) ==
    IF S = {} THEN 0
    ELSE LET i == CHOOSE x \in S : TRUE
         IN vs[i].treasure + TreasureOf(S \ {i}, vs)

(* The safe villagers that player p owns.                                  *)
SafeOf(p, vs) == {i \in 1..Len(vs) : vs[i].owner = PlayerNames[p] /\ vs[i].state = "safe"}

(* sc and w are the scores and the winner the claim asks for.              *)
RightScores(sc, w, vs) ==
    /\ \A p \in Players : sc[p] = TreasureOf(SafeOf(p, vs), vs)
    /\ w \in Players
    /\ \A q \in Players : sc[q] <= sc[w]
    /\ \A q \in Players : sc[q] = sc[w] => w <= q

(* The villagers with their treasures redrawn: setup draws each treasure   *)
(* from 1..6 and nothing but the scoring reads it, so the game reaches the *)
(* same state with any other treasures.                                    *)
Redrawn(vs, tr) == [i \in 1..Len(vs) |-> [vs[i] EXCEPT !.treasure = tr[i]]]

(* C14: at game over each player's score is the sum of the treasures of    *)
(* that player's safe villagers (dead, in-water and on-land villagers      *)
(* count 0), and the winner is the first player, in the order of the       *)
(* players, among those with the highest score; this for the treasures of  *)
(* the game and for the same villagers when any one of them carries a     *)
(* treasure of 6.                                                          *)
C14_ScoresAndWinner ==
    pc = "done" =>
       /\ RightScores(scores, winner, villagers)
       /\ \A rich \in VillagerIds :
             LET tr == [i \in VillagerIds |-> IF i = rich THEN TreasureSides ELSE 1]
                 vs == Redrawn(villagers, tr)
                 sc == [p \in Players |-> Score(p, vs, pvillagers)]
             IN RightScores(sc, Winner(sc), vs)

(* Game over with the two automated players tied ahead of the human: the   *)
(* first of the two is the winner.                                         *)
C14_Witness ==
    /\ pc = "done"
    /\ scores[1] < scores[2]
    /\ scores[2] = scores[3]
    /\ winner = 2
    /\ \E i \in VillagerIds : villagers[i].state \in {"water", "dead"}

InSetup == pc \in {"setup_player", "place"}

(* The villagers as the placement stage must leave them.                   *)
PlacementComplete ==
    /\ Len(villagers) = NumPlayers * VillagersPerPlayer
    /\ \A p \in Players :
          /\ Len(pvillagers[p]) = VillagersPerPlayer
          /\ \A k \in 1..Len(pvillagers[p]) :
                /\ pvillagers[p][k] \in VillagerIds
                /\ villagers[pvillagers[p][k]].owner = PlayerNames[p]
                /\ \A m \in 1..Len(pvillagers[p]) :
                      pvillagers[p][k] = pvillagers[p][m] => k = m
    /\ \A i \in VillagerIds :
          /\ villagers[i].id = i
          /\ villagers[i].state = "land"
          /\ villagers[i].treasure \in 1..TreasureSides
          /\ villagers[i].tile \in OnBoard
          /\ Cardinality({k \in 1..Len(tiles[villagers[i].tile].villagers) :
                             tiles[villagers[i].tile].villagers[k] = i}) = 1
          /\ villagers[i].distance_remaining = TileDistance(tiles[villagers[i].tile].type)

(* C16: the placement stage never runs out of tiles with room and leaves   *)
(* every player with exactly VillagersPerPlayer villagers (10 in the       *)
(* program), each on land, with a treasure in 1..6, on a tile of the board *)
(* that lists it once, at that tile's distance to safety; afterwards the   *)
(* players' lists and the treasures never change.                          *)
C16_PlacementComplete ==
    [][/\ pc = "place" => valid_tiles(board, tiles) # <<>>
       /\ (InSetup /\ ~InSetup') => PlacementComplete'
       /\ ~InSetup =>
             /\ pvillagers' = pvillagers
             /\ Len(villagers') = Len(villagers)
             /\ \A i \in VillagerIds :
                   /\ villagers'[i].treasure = villagers[i].treasure
                   /\ villagers'[i].owner = villagers[i].owner
                   /\ villagers'[i].id = villagers[i].id]_vars

(* Placement is just over, and one tile was filled to its capacity.        *)
C16_Witness ==
    /\ pc = "move"
    /\ total_turns = 1
    /\ cur = 1
    /\ points = MovePoints
    /\ phase_start = villagers
    /\ \A i \in VillagerIds : villagers[i].state = "land"
    /\ \E t \in OnBoard : Len(tiles[t].villagers) = Capacity

(* C17: a villager's state changes only from land to water (in a sink),    *)
(* from land or water to safe (in a movement phase) and from water to dead *)
(* (in a creature phase); a safe or dead villager never changes state or   *)
(* distance again; and a slot that is sunk never holds a tile again.       *)
C17_Lifecycle ==
    [][/\ \A i \in VillagerIds :
             LET before == villagers[i]
                 after == villagers'[i]
             IN /\ before.state # after.state =>
                      \/ before.state = "land" /\ after.state = "water" /\ pc = "sink"
                      \/ before.state \in {"land", "water"} /\ after.state = "safe"
                            /\ InMovePhase
                      \/ before.state = "water" /\ after.state = "dead" /\ pc = "creature"
                /\ before.state \in {"safe", "dead"} =>
                      /\ after.state = before.state
                      /\ after.distance_remaining = before.distance_remaining
       /\ \A s \in 1..NumSlots : board[s] = None => board'[s] = None]_vars

(* Every lifecycle state is present at once while a slot is sunk and       *)
(* another still holds its tile.                                           *)
C17_Witness ==
    /\ \A st \in {"land", "water", "safe", "dead"} :
          \E i \in VillagerIds : villagers[i].state = st
    /\ \E s \in 1..NumSlots : board[s] = None
    /\ \E s \in 1..NumSlots : board[s] # None

(* C19: whenever the human is asked for a villager id, some id is accepted *)
(* (the human owns a villager on land, or in water and not yet moved this  *)
(* turn), so the id prompt can always be left.                             *)
C19_IdPromptAnswerable ==
    pc = "prompt_id" =>
       \E raw_vid \in IdInputs :
          IdAccepted(raw_vid, villagers, pvillagers[cur], water_moved)

(* A villager of player p that could legally move: on land, or in water    *)
(* and not yet moved this turn.                                            *)
CouldMove(p) ==
    \E k \in 1..Len(pvillagers[p]) :
       LET v == villagers[pvillagers[p][k]]
       IN v.state = "land" \/ (v.state = "water" /\ v.id \notin water_moved)

(* C20 as claimed: an automated player's movement phase ends only when    *)
(* its points are 0 or none of its villagers could legally move; it never  *)
(* ends with points left while one of its swimmers is still unmoved this   *)
(* turn.                                                                   *)
C20_AutomatedPhaseUsesPoints ==
    [][(pc = "move" /\ ~is_human(cur) /\ pc' # "move") =>
          (points = 0 \/ ~CouldMove(cur))]_vars

(* The positions, in player p's list, of its villagers on land or in water *)
(* that are nearest to safety.                                             *)
NearestPositions(p) ==
    {k \in 1..Len(pvillagers[p]) :
        /\ villagers[pvillagers[p][k]].state \in {"land", "water"}
        /\ \A m \in 1..Len(pvillagers[p]) :
              villagers[pvillagers[p][m]].state \in {"land", "water"} =>
                 villagers[pvillagers[p][k]].distance_remaining
                    <= villagers[pvillagers[p][m]].distance_remaining}

(* The first of them is a swimmer already moved this turn, and the player  *)
(* has nobody on land.                                                     *)
NearestIsSpent(p) ==
    /\ NearestPositions(p) # {}
    /\ LET k == CHOOSE x \in NearestPositions(p) : \A y \in NearestPositions(p) : x <= y
           v == villagers[pvillagers[p][k]]
       IN v.state = "water" /\ v.id \in water_moved
    /\ \A k \in 1..Len(pvillagers[p]) : villagers[pvillagers[p][k]].state # "land"

(* C20 amended: an automated player's movement phase ends only when its    *)
(* points are 0, or none of its villagers could legally move, or the first *)
(* in its list of its villagers nearest to safety is a swimmer already     *)
(* moved this turn and it has nobody on land; in the last case it may      *)
(* leave points unused while another swimmer is unmoved.  A pass of the    *)
(* loop that does not end the phase spends at least one point.             *)
C20_AutomatedPhaseEnd ==
    [][(pc = "move" /\ ~is_human(cur)) =>
          IF pc' # "move"
          THEN points = 0 \/ ~CouldMove(cur) \/ NearestIsSpent(cur)
          ELSE points' < points]_vars

(* An automated player with points left is about to end its phase: its     *)
(* nearest swimmer has moved, another swimmer of its has not.              *)
C20_Witness ==
    /\ pc = "move"
    /\ ~is_human(cur)
    /\ points > 0
    /\ NearestIsSpent(cur)
    /\ CouldMove(cur)

(* The first, in player p's list, of its villagers nearest to safety.      *)
Nearest(p) ==
    pvillagers[p][CHOOSE x \in NearestPositions(p) : \A y \in NearestPositions(p) : x <= y]

(* The villagers this step changes.                                        *)
Changed == {i \in VillagerIds : villagers'[i] # villagers[i]}

(* C18: each move of an automated player moves one villager of the player: *)
(* one on land or in water with the smallest remaining distance, unless    *)
(* the first of these is in water and already moved this turn, and then    *)
(* one on land with the smallest remaining distance among those on land;   *)
(* it moves it by min(points, remaining distance) on land and by 1 in      *)
(* water, never less.                                                      *)
C18_AutomatedPolicy ==
    [][(pc = "move" /\ ~is_human(cur) /\ villagers' # villagers) =>
          \E i \in Range(pvillagers[cur]) :
             LET v == villagers[i]
                 mine == {villagers[j] : j \in Range(pvillagers[cur])}
                 passed == /\ villagers[Nearest(cur)].state = "water"
                           /\ Nearest(cur) \in water_moved
                 amount == v.distance_remaining - villagers'[i].distance_remaining
             IN /\ Changed = {i}
                /\ IF passed
                   THEN /\ v.state = "land"
                        /\ \A w \in mine : w.state = "land" =>
                              v.distance_remaining <= w.distance_remaining
                   ELSE /\ v.state \in {"land", "water"}
                        /\ \A w \in mine : w.state \in {"land", "water"} =>
                              v.distance_remaining <= w.distance_remaining
                /\ amount = IF v.state = "land" THEN Min(points, v.distance_remaining) ELSE 1
                /\ points' = points - amount]_vars

(* An automated player is about to pass over its nearest villager, a       *)
(* swimmer already moved this turn, for a villager on land.                *)
C18_Witness ==
    /\ pc = "move"
    /\ ~is_human(cur)
    /\ points > 0
    /\ NearestPositions(cur) # {}
    /\ villagers[Nearest(cur)].state = "water"
    /\ Nearest(cur) \in water_moved
    /\ \E k \in 1..Len(pvillagers[cur]) : villagers[pvillagers[cur][k]].state = "land"

(* The slots that are sunk.                                                *)
SunkSlots == {s \in 1..NumSlots : board[s] = None}

(* The sink phases completed so far: one by each player of the earlier     *)
(* rounds and by each earlier player of this round, and the current        *)
(* player's once it is past its sink.                                      *)
SinksCompleted ==
    (total_turns - 1) * NumPlayers + (cur - 1)
       + (IF pc \in {"creature", "over", "done"} THEN 1 ELSE 0)

(* The round and the player of the turn that sinks the last tile: round 5  *)
(* and the third player for 15 tiles and 3 players.                        *)
FinalRound == ((NumSlots - 1) \div NumPlayers) + 1
FinalPlayer == ((NumSlots - 1) % NumPlayers) + 1

(* C21: every player-turn that is started sinks exactly one tile, so the   *)
(* number of sunk slots equals the number of completed sink phases; the    *)
(* game ends in the turn that sinks the last tile (the third player's turn *)
(* of round 5 on the program's 15 tiles) with the all-tiles-sunk reason;   *)
(* the round counter never exceeds that round, and the game never ends     *)
(* with the "erupts" reason.                                               *)
C21_OneSinkPerTurn ==
    /\ InSetup => SunkSlots = {}
    /\ ~InSetup => Cardinality(SunkSlots) = SinksCompleted
    /\ total_turns <= FinalRound
    /\ FinalRound <= max_turns
    /\ game_end_reason # EruptsReason
    /\ pc \in {"over", "done"} =>
          /\ total_turns = FinalRound
          /\ cur = FinalPlayer
          /\ SunkSlots = 1..NumSlots
          /\ game_end_reason = SunkReason
          /\ game_over

(* The last tile has just sunk, in the final round, and the game is over.  *)
C21_Witness ==
    /\ pc = "over"
    /\ total_turns = FinalRound
    /\ cur = FinalPlayer
    /\ Cardinality(SunkSlots) = NumSlots
    /\ game_end_reason = SunkReason

============================================================================
